---- MODULE Spec2Model ----
(***************************************************************************)
(* Model of the fixed-capacity ring-buffer deque of heapless               *)
(* (src/src/deque.rs): the cursors front/back, the flag full and the       *)
(* buffer of possibly-uninitialised slots, with the safe operations        *)
(* push_front, push_back, pop_front, pop_back, front, back, clear and      *)
(* make_contiguous translated from DequeView<T>.                           *)
(*                                                                         *)
(* A slot holds an element (a value of Values) or Uninit.  A slot becomes  *)
(* Uninit when its element is moved out (ptr::read in a pop, the source of *)
(* a ptr::copy) or dropped.  An access the language leaves undefined (an   *)
(* index outside the buffer, moving out or dropping an Uninit slot) sets   *)
(* ub; its outcome is chosen nondeterministically and no operation is      *)
(* modelled after it.                                                      *)
(***************************************************************************)
EXTENDS Integers, Sequences, FiniteSets

\* ---- bounds -------------------------------------------------------------
MaxCap == 6     \* capacities N = 1..MaxCap
MaxVal == 2     \* element values 1..MaxVal
MaxNet == 8     \* cap on the pushes-minus-pops counter

Uninit == 0
Values == 1..MaxVal
Cells  == Values \cup {Uninit}

\* the largest capacity N of a Vec<T, N>
MaxVecCap == 3

\* the longest slice passed to extend_from_slice
MaxSliceLen == 2

VARIABLES
    capacity,   \* buffer.len(), fixed at construction
    front,      \* DequeInner::front
    back,       \* DequeInner::back
    full,       \* DequeInner::full
    buffer,     \* DequeInner::buffer : [0..capacity-1 -> Cells]
    ret,        \* the last call: operation, argument, result, accesses
    net,        \* pushes that returned Ok minus pops that returned Some
    ub,         \* an access with undefined behaviour has happened
    mode,       \* who owns the deque: "deque", "into_iter" or "dropped"
    it,         \* the iterator borrowed from the deque, or NoIter
    vec_capacity,   \* VecInner::buffer.len()
    vec_len,        \* VecInner::len
    vec_buffer,     \* VecInner::buffer : [0..vec_capacity-1 -> Cells]
    call            \* the vector operation in progress, or Idle

\* the variables of the vector
vec_vars == <<vec_capacity, vec_len, vec_buffer, call>>

vars == <<capacity, front, back, full, buffer, ret, net, ub, mode, it,
          vec_capacity, vec_len, vec_buffer, call>>

\* no iterator is borrowed
NoIter == [kind |-> "none"]

\* no vector operation is in progress
Idle == [op |-> "idle"]

\* the record of a call: op, the pushed item, the result tag, the value
\* returned, the slice returned, and how its slot accesses went
Ret(op, item, res, val, slice, viol) ==
    [op |-> op, item |-> item, res |-> res, val |-> val,
     slice |-> slice, viol |-> viol]

\* ---- index arithmetic ---------------------------------------------------
increment(i) == IF i + 1 = capacity THEN 0 ELSE i + 1

\* decrement that saturates at 0 instead of wrapping to capacity - 1
decrement_saturating(i) == IF i = 0 THEN 0 ELSE i - 1

decrement(i) == IF i = 0 THEN capacity - 1 ELSE i - 1

\* ---- observers ----------------------------------------------------------
\* len that forgets the full flag
len_ignoring_full ==
    IF back < front THEN back + capacity - front
    ELSE back - front

len ==
    IF full THEN capacity
    ELSE IF back < front THEN back + capacity - front
    ELSE back - front

\* an is_empty that looks at the cursors only
is_empty_ignoring_full == front = back

is_empty == front = back /\ ~full

is_full == full

InBounds(i) == i \in 0..(capacity - 1)

\* the content of slot i as a read sees it (nothing usable outside the buffer)
Cell(buf, i) == IF i \in DOMAIN buf THEN buf[i] ELSE Uninit

\* slice::from_raw_parts(ptr.add(p), n)
SliceOf(buf, p, n) == [i \in 1..n |-> Cell(buf, p + i - 1)]

\* as_slices_ranges that takes a full deque (back = front) for unwrapped
as_slices_ranges_strict ==
    IF is_empty THEN << <<0, 0>>, <<0, 0>> >>
    ELSE IF back < front THEN << <<front, capacity - front>>, <<0, back>> >>
    ELSE << <<front, back - front>>, <<0, 0>> >>

\* the (start, length) pairs of the two segments of as_slices/as_mut_slices
as_slices_ranges ==
    IF is_empty THEN << <<0, 0>>, <<0, 0>> >>
    ELSE IF back <= front THEN << <<front, capacity - front>>, <<0, back>> >>
    ELSE << <<front, back - front>>, <<0, 0>> >>

as_slices ==
    << SliceOf(buffer, as_slices_ranges[1][1], as_slices_ranges[1][2]),
       SliceOf(buffer, as_slices_ranges[2][1], as_slices_ranges[2][2]) >>

\* first ++ second
contents == as_slices[1] \o as_slices[2]

\* an is_contiguous that is off by one slot
is_contiguous_strict == front < capacity - len

is_contiguous == front <= capacity - len

\* ---- memory primitives --------------------------------------------------
\* ptr::copy(src, dst, n) used as a move: the destination receives the
\* cells, the source slots outside the destination are left moved-from
Copy(buf, src, dst, n) ==
    [i \in DOMAIN buf |->
        IF i \in dst..(dst + n - 1) THEN Cell(buf, i - dst + src)
        ELSE IF i \in src..(src + n - 1) THEN Uninit
        ELSE buf[i]]

\* buf[lo .. lo+n).rotate_left(mid)
RotateLeft(buf, lo, n, mid) ==
    [i \in DOMAIN buf |->
        IF i \in lo..(lo + n - 1) THEN buf[lo + ((i - lo + mid) % n)]
        ELSE buf[i]]

\* buf[lo .. lo+n).rotate_right(k)
RotateRight(buf, lo, n, k) ==
    [i \in DOMAIN buf |->
        IF i \in lo..(lo + n - 1) THEN buf[lo + ((i - lo + n - k) % n)]
        ELSE buf[i]]

\* ---- construction -------------------------------------------------------
Init ==
    /\ capacity \in 1..MaxCap
    /\ front = 0
    /\ back = 0
    /\ full = FALSE
    /\ buffer = [i \in 0..(capacity - 1) |-> Uninit]
    /\ ret = Ret("new", 0, "-", 0, <<>>, "none")
    /\ net = 0
    /\ ub = FALSE
    /\ mode = "deque"
    /\ it = NoIter
    /\ vec_capacity = 0
    /\ vec_len = 0
    /\ vec_buffer = << >>
    /\ call = Idle

\* ---- unchecked push/pop -------------------------------------------------
\* the write lands outside the buffer: the buffer is untouched and whatever
\* lies behind it (possibly the cursors and the flag) is overwritten
OutOfBoundsWrite(op, item) ==
    /\ \E f \in 0..capacity, b \in 0..(capacity + 1), fl \in BOOLEAN :
          front' = f /\ back' = b /\ full' = fl
    /\ buffer' = buffer
    /\ ub' = TRUE
    /\ ret' = Ret(op, item, "Ok", 0, <<>>, "oob")

push_front_unchecked(item) ==
    LET index == decrement(front) IN
    IF InBounds(index)
    THEN /\ buffer' = [buffer EXCEPT ![index] = item]
         /\ front' = index
         /\ back' = back
         /\ full' = IF index = back THEN TRUE ELSE full
         /\ ub' = ub
         /\ ret' = Ret("push_front", item, "Ok", 0, <<>>,
                       IF buffer[index] # Uninit THEN "live_write" ELSE "none")
    ELSE OutOfBoundsWrite("push_front", item)

push_back_unchecked(item) ==
    IF InBounds(back)
    THEN /\ buffer' = [buffer EXCEPT ![back] = item]
         /\ back' = increment(back)
         /\ front' = front
         /\ full' = IF front = increment(back) THEN TRUE ELSE full
         /\ ub' = ub
         /\ ret' = Ret("push_back", item, "Ok", 0, <<>>,
                       IF buffer[back] # Uninit THEN "live_write" ELSE "none")
    ELSE OutOfBoundsWrite("push_back", item)

\* ptr::read of slot index: the element if the slot is live, anything if not
ReadSlot(op, index) ==
    IF InBounds(index) /\ buffer[index] # Uninit
    THEN /\ buffer' = [buffer EXCEPT ![index] = Uninit]
         /\ ub' = ub
         /\ ret' = Ret(op, 0, "Some", buffer[index], <<>>, "none")
    ELSE /\ buffer' = buffer
         /\ ub' = TRUE
         /\ \E v \in Values :
               ret' = Ret(op, 0, "Some", v, <<>>,
                          IF InBounds(index) THEN "dead_read" ELSE "oob")

pop_front_unchecked ==
    LET index == front IN
    /\ full' = FALSE
    /\ front' = increment(front)
    /\ back' = back
    /\ ReadSlot("pop_front", index)

pop_back_unchecked ==
    /\ full' = FALSE
    /\ back' = decrement(back)
    /\ front' = front
    /\ ReadSlot("pop_back", decrement(back))

\* ---- checked push/pop ---------------------------------------------------
push_front(item) ==
    /\ ~ub
    /\ UNCHANGED <<mode, it, vec_vars>>
    /\ net < MaxNet
    /\ capacity' = capacity
    /\ IF is_full
       THEN /\ ret' = Ret("push_front", item, "Err", item, <<>>, "none")
            /\ UNCHANGED <<front, back, full, buffer, net, ub>>
       ELSE /\ push_front_unchecked(item)
            /\ net' = net + 1

push_back(item) ==
    /\ ~ub
    /\ UNCHANGED <<mode, it, vec_vars>>
    /\ net < MaxNet
    /\ capacity' = capacity
    /\ IF is_full
       THEN /\ ret' = Ret("push_back", item, "Err", item, <<>>, "none")
            /\ UNCHANGED <<front, back, full, buffer, net, ub>>
       ELSE /\ push_back_unchecked(item)
            /\ net' = net + 1

pop_front ==
    /\ ~ub
    /\ UNCHANGED <<mode, it, vec_vars>>
    /\ capacity' = capacity
    /\ IF is_empty
       THEN /\ ret' = Ret("pop_front", 0, "None", 0, <<>>, "none")
            /\ UNCHANGED <<front, back, full, buffer, net, ub>>
       ELSE /\ pop_front_unchecked
            /\ net' = net - 1

pop_back ==
    /\ ~ub
    /\ UNCHANGED <<mode, it, vec_vars>>
    /\ capacity' = capacity
    /\ IF is_empty
       THEN /\ ret' = Ret("pop_back", 0, "None", 0, <<>>, "none")
            /\ UNCHANGED <<front, back, full, buffer, net, ub>>
       ELSE /\ pop_back_unchecked
            /\ net' = net - 1

\* ---- specification of push/pop only -------------------------------------
NextPushPop ==
    \/ \E item \in Values : push_front(item)
    \/ \E item \in Values : push_back(item)
    \/ pop_front
    \/ pop_back

SpecPushPop == Init /\ [][NextPushPop]_vars

\* ---- front() / back() ---------------------------------------------------
\* a shared read of slot index
PeekSlot(op, index) ==
    IF InBounds(index) /\ buffer[index] # Uninit
    THEN /\ ub' = ub
         /\ ret' = Ret(op, 0, "Some", buffer[index], <<>>, "none")
    ELSE /\ ub' = TRUE
         /\ \E v \in Values :
               ret' = Ret(op, 0, "Some", v, <<>>,
                          IF InBounds(index) THEN "dead_read" ELSE "oob")

front_ref ==
    /\ ~ub
    /\ UNCHANGED <<mode, it, vec_vars>>
    /\ UNCHANGED <<capacity, front, back, full, buffer, net>>
    /\ IF is_empty
       THEN /\ ret' = Ret("front", 0, "None", 0, <<>>, "none")
            /\ ub' = ub
       ELSE PeekSlot("front", front)

back_ref ==
    /\ ~ub
    /\ UNCHANGED <<mode, it, vec_vars>>
    /\ UNCHANGED <<capacity, front, back, full, buffer, net>>
    /\ IF is_empty
       THEN /\ ret' = Ret("back", 0, "None", 0, <<>>, "none")
            /\ ub' = ub
       ELSE PeekSlot("back", decrement(back))

\* ---- clear --------------------------------------------------------------
\* the slots of the two segments of as_mut_slices
SegmentSlots ==
    LET r == as_slices_ranges IN
    (r[1][1]..(r[1][1] + r[1][2] - 1)) \cup (r[2][1]..(r[2][1] + r[2][2] - 1))

\* ptr::drop_in_place on both segments: every slot of them is destroyed
drop_contents ==
    LET slots == SegmentSlots
        live  == {i \in slots : InBounds(i) /\ buffer[i] # Uninit} IN
    /\ buffer' = [i \in DOMAIN buffer |->
                     IF i \in slots THEN Uninit ELSE buffer[i]]
    /\ net' = net - Cardinality(live)
    /\ ub' = (ub \/ live # slots)
    /\ ret' = Ret("clear", 0, "-", 0, <<>>,
                  IF \E i \in slots : ~InBounds(i) THEN "oob"
                  ELSE IF live # slots THEN "dead_read" ELSE "none")

clear ==
    /\ ~ub
    /\ UNCHANGED <<mode, it, vec_vars>>
    /\ capacity' = capacity
    /\ drop_contents
    /\ front' = 0
    /\ back' = 0
    /\ full' = FALSE

\* ---- make_contiguous ----------------------------------------------------
\* the buffer and the cursors <<buffer, front, back>> the call leaves
make_contiguous_result ==
    LET ln        == len
        free      == capacity - ln
        front_len == capacity - front
        back_len  == ln - front_len
    IN
    IF is_contiguous THEN <<buffer, front, back>>
    ELSE IF free >= front_len
    THEN << Copy(Copy(buffer, 0, front_len, back_len), front, 0, front_len),
            0, ln >>
    ELSE IF free >= back_len
    THEN << Copy(Copy(buffer, front, back, front_len),
                 0, back + front_len, back_len),
            back_len, 0 >>
    ELSE IF front_len > back_len
    THEN << RotateLeft(IF free # 0 THEN Copy(buffer, 0, free, back_len)
                       ELSE buffer,
                       free, capacity - free, back_len),
            free, 0 >>
    ELSE << RotateRight(IF free # 0 THEN Copy(buffer, front, back_len, front_len)
                        ELSE buffer,
                        0, ln, front_len),
            0, ln >>

make_contiguous ==
    LET r == make_contiguous_result
        ln == len IN
    /\ ~ub
    /\ UNCHANGED <<mode, it, vec_vars>>
    /\ UNCHANGED <<capacity, full, net, ub>>
    /\ buffer' = r[1]
    /\ front' = r[2]
    /\ back' = r[3]
    /\ ret' = Ret("make_contiguous", 0, "-", 0, SliceOf(r[1], r[2], ln), "none")

\* ---- specification of the safe operations -------------------------------
Next ==
    \/ \E item \in Values : push_front(item)
    \/ \E item \in Values : push_back(item)
    \/ pop_front
    \/ pop_back
    \/ front_ref
    \/ back_ref
    \/ clear
    \/ make_contiguous

Spec == Init /\ [][Next]_vars

\* ---- specification of push/pop and clear --------------------------------
NextPushPopClear ==
    \/ \E item \in Values : push_front(item)
    \/ \E item \in Values : push_back(item)
    \/ pop_front
    \/ pop_back
    \/ clear

SpecPushPopClear == Init /\ [][NextPushPopClear]_vars

\* ---- drop and into_iter -------------------------------------------------
\* Drop for DequeInner: ptr::drop_in_place on both segments of as_mut_slices
drop ==
    LET slots == SegmentSlots
        live  == {i \in slots : InBounds(i) /\ buffer[i] # Uninit} IN
    /\ ~ub
    /\ mode # "dropped"
    /\ buffer' = [i \in DOMAIN buffer |->
                     IF i \in slots THEN Uninit ELSE buffer[i]]
    /\ net' = net - Cardinality(live)
    /\ ub' = (ub \/ live # slots)
    /\ ret' = Ret("drop", 0, "-", 0, <<>>,
                  IF \E i \in slots : ~InBounds(i) THEN "oob"
                  ELSE IF live # slots THEN "dead_read" ELSE "none")
    /\ mode' = "dropped"
    /\ UNCHANGED <<capacity, front, back, full, it, vec_vars>>

\* IntoIterator for Deque<T, N>: the deque moves into the IntoIter
into_iter ==
    /\ ~ub
    /\ mode = "deque"
    /\ mode' = "into_iter"
    /\ ret' = Ret("into_iter", 0, "-", 0, <<>>, "none")
    /\ UNCHANGED <<capacity, front, back, full, buffer, net, ub, it, vec_vars>>

\* IntoIter::next is pop_front on the deque it owns
into_iter_next ==
    /\ mode = "into_iter"
    /\ pop_front

\* ---- specification of a deque from new() to its drop ---------------------
NextLifetime ==
    \/ /\ mode = "deque"
       /\ \/ \E item \in Values : push_front(item)
          \/ \E item \in Values : push_back(item)
          \/ pop_front
          \/ pop_back
          \/ clear
          \/ make_contiguous
    \/ into_iter
    \/ into_iter_next
    \/ drop

SpecLifetime == Init /\ [][NextLifetime]_vars

\* ---- iterators ----------------------------------------------------------
\* a yield of slot index through a raw pointer of the iterator
IterYield(op, index) ==
    IF InBounds(index) /\ buffer[index] # Uninit
    THEN <<buffer[index], "none">>
    ELSE <<Uninit, IF InBounds(index) THEN "dead_read" ELSE "oob">>

\* the iterator after it yielded y = <<value, violation>> at its front
\* (fwd) or at its back (bwd)
Yielded(i, y, atFront) ==
    IF atFront THEN [i EXCEPT !.fwd = Append(i.fwd, y[1])]
    ELSE [i EXCEPT !.bwd = Append(i.bwd, y[1])]

\* Deque::iter: the cursor-based Iter
iter ==
    /\ ~ub
    /\ mode = "deque"
    /\ it = NoIter
    /\ it' = [kind |-> "iter", front |-> front, back |-> back,
              done |-> is_empty, a |-> <<>>, b |-> <<>>,
              fwd |-> <<>>, bwd |-> <<>>]
    /\ ret' = Ret("iter", 0, "-", 0, <<>>, "none")
    /\ UNCHANGED <<capacity, front, back, full, buffer, net, ub, mode, vec_vars>>

\* DequeView::iter: the chain of the two slice iterators of as_slices()
iter_view ==
    /\ ~ub
    /\ mode = "deque"
    /\ it = NoIter
    /\ it' = [kind |-> "view", front |-> 0, back |-> 0, done |-> FALSE,
              a |-> as_slices[1], b |-> as_slices[2],
              fwd |-> <<>>, bwd |-> <<>>]
    /\ ret' = Ret("iter", 0, "-", 0, <<>>, "none")
    /\ UNCHANGED <<capacity, front, back, full, buffer, net, ub, mode, vec_vars>>

\* the step of an iterator that yields y and becomes i
IterStep(op, i, y) ==
    /\ it' = i
    /\ ub' = (ub \/ y[2] # "none")
    /\ IF y[2] = "none"
       THEN ret' = Ret(op, 0, "Some", y[1], <<>>, "none")
       ELSE \E v \in Values : ret' = Ret(op, 0, "Some", v, <<>>, y[2])

\* the step of an exhausted iterator
IterNone(op) ==
    /\ it' = it
    /\ ub' = ub
    /\ ret' = Ret(op, 0, "None", 0, <<>>, "none")

\* a value read through a slice iterator
SliceYield(v) == <<v, IF v = Uninit THEN "dead_read" ELSE "none">>

\* Iter::next / IterView::next
iter_next ==
    /\ ~ub
    /\ it.kind \in {"iter", "view"}
    /\ Len(it.fwd) + Len(it.bwd) <= capacity
    /\ UNCHANGED <<capacity, front, back, full, buffer, net, mode, vec_vars>>
    /\ IF it.kind = "iter"
       THEN IF it.done THEN IterNone("next")
            ELSE LET index == it.front
                     f == increment(it.front)
                     y == IterYield("next", index) IN
                 IterStep("next",
                          Yielded([it EXCEPT !.front = f,
                                             !.done = (f = it.back)], y, TRUE),
                          y)
       ELSE IF it.a # <<>>
            THEN LET y == SliceYield(Head(it.a)) IN
                 IterStep("next", Yielded([it EXCEPT !.a = Tail(it.a)], y, TRUE), y)
            ELSE IF it.b # <<>>
            THEN LET y == SliceYield(Head(it.b)) IN
                 IterStep("next", Yielded([it EXCEPT !.b = Tail(it.b)], y, TRUE), y)
            ELSE IterNone("next")

\* Iter::next_back / IterView::next_back
iter_next_back ==
    /\ ~ub
    /\ it.kind \in {"iter", "view"}
    /\ Len(it.fwd) + Len(it.bwd) <= capacity
    /\ UNCHANGED <<capacity, front, back, full, buffer, net, mode, vec_vars>>
    /\ IF it.kind = "iter"
       THEN IF it.done THEN IterNone("next_back")
            ELSE LET b == decrement(it.back)
                     y == IterYield("next_back", b) IN
                 IterStep("next_back",
                          Yielded([it EXCEPT !.back = b,
                                             !.done = (it.front = b)], y, FALSE),
                          y)
       ELSE IF it.b # <<>>
            THEN LET y == SliceYield(it.b[Len(it.b)]) IN
                 IterStep("next_back",
                          Yielded([it EXCEPT !.b = SubSeq(it.b, 1, Len(it.b) - 1)],
                                  y, FALSE), y)
            ELSE IF it.a # <<>>
            THEN LET y == SliceYield(it.a[Len(it.a)]) IN
                 IterStep("next_back",
                          Yielded([it EXCEPT !.a = SubSeq(it.a, 1, Len(it.a) - 1)],
                                  y, FALSE), y)
            ELSE IterNone("next_back")

\* the iterator goes out of scope and the borrow of the deque ends
iter_end ==
    /\ ~ub
    /\ it # NoIter
    /\ it' = NoIter
    /\ ret' = Ret("iter_end", 0, "-", 0, <<>>, "none")
    /\ UNCHANGED <<capacity, front, back, full, buffer, net, ub, mode, vec_vars>>

\* ---- specification of a deque and the iterators borrowed from it ---------
NextIter ==
    \/ /\ it = NoIter
       /\ \/ \E item \in Values : push_front(item)
          \/ \E item \in Values : push_back(item)
          \/ pop_front
          \/ pop_back
          \/ make_contiguous
    \/ iter
    \/ iter_view
    \/ iter_next
    \/ iter_next_back
    \/ iter_end

SpecIter == Init /\ [][NextIter]_vars

\* ---- Vec: construction, push, pop ---------------------------------------
deque_vars == <<capacity, front, back, full, buffer, ret, net, ub, mode, it>>

\* Vec::new() of a Vec<T, N>; the deque of the module is not used
VecInit ==
    /\ capacity = 1
    /\ front = 0
    /\ back = 0
    /\ full = FALSE
    /\ buffer = [i \in 0..0 |-> Uninit]
    /\ ret = Ret("new", 0, "-", 0, <<>>, "none")
    /\ net = 0
    /\ ub = FALSE
    /\ mode = "vec"
    /\ it = NoIter
    /\ vec_capacity \in 0..MaxVecCap
    /\ vec_len = 0
    /\ vec_buffer = [i \in 0..(vec_capacity - 1) |-> Uninit]
    /\ call = Idle

\* no retain is running and no Drain borrows the vector
VecIdle == call.op \notin {"retain", "drain", "truncate_dropping"}

\* VecInner::as_slice of a buffer and a length
as_slice_of(buf, n) == SliceOf(buf, 0, n)

as_slice == as_slice_of(vec_buffer, vec_len)

\* VecInner::storage_capacity: the length of the buffer
storage_capacity == Cardinality(DOMAIN vec_buffer)

\* an is_full that is one element early
vec_is_full_one_early == vec_len + 1 = storage_capacity

\* VecInner::is_full
vec_is_full == vec_len = storage_capacity

\* VecInner::is_empty
vec_is_empty == vec_len = 0

\* the violation of reading or dropping slot i of the vector's buffer
SlotViol(buf, i) ==
    IF i \notin DOMAIN buf THEN "oob"
    ELSE IF buf[i] = Uninit THEN "dead_read" ELSE "none"

\* the record of a finished call on the vector: orig is as_slice() before
\* the call, destroyed the elements whose destructor the call ran
VecCall(op, index, item, res, val, orig, destroyed, viol) ==
    [op |-> op, index |-> index, item |-> item, res |-> res, val |-> val,
     orig |-> orig, destroyed |-> destroyed, viol |-> viol]

vec_push(item) ==
    /\ mode = "vec"
    /\ VecIdle
    /\ IF vec_len < vec_capacity
       THEN /\ vec_buffer' = [vec_buffer EXCEPT ![vec_len] = item]
            /\ vec_len' = vec_len + 1
            /\ call' = VecCall("push", 0, item, "Ok", 0, as_slice, <<>>, "none")
       ELSE /\ UNCHANGED <<vec_buffer, vec_len>>
            /\ call' = VecCall("push", 0, item, "Err", item, as_slice, <<>>, "none")
    /\ UNCHANGED <<vec_capacity, deque_vars>>

\* a pop_unchecked that reads the slot before it decrements the length
pop_unchecked_index_stale(len0) == len0

\* pop_unchecked: the slot it reads, after self.len -= 1
pop_unchecked_index(len0) == len0 - 1

vec_pop ==
    /\ mode = "vec"
    /\ VecIdle
    /\ IF vec_len # 0
       THEN LET i == pop_unchecked_index(vec_len) IN
            /\ vec_len' = vec_len - 1
            /\ vec_buffer' = [j \in DOMAIN vec_buffer |->
                                IF j = i THEN Uninit ELSE vec_buffer[j]]
            /\ call' = VecCall("pop", 0, 0, "Some", Cell(vec_buffer, i),
                               as_slice, <<>>, SlotViol(vec_buffer, i))
       ELSE /\ UNCHANGED <<vec_buffer, vec_len>>
            /\ call' = VecCall("pop", 0, 0, "None", 0, as_slice, <<>>, "none")
    /\ UNCHANGED <<vec_capacity, deque_vars>>

\* ---- Vec: retain / retain_mut -------------------------------------------
\* the slot a kept element is moved to in stage 2
hole_slot_at_cursor(processed_len, deleted_cnt) == processed_len

hole_slot(processed_len, deleted_cnt) == processed_len - deleted_cnt

\* a cursor that counts the kept elements instead of the processed ones
cur_index_after_holes(processed_len, deleted_cnt) ==
    processed_len - deleted_cnt

\* the index of cur, the element process_loop hands to f
cur_index(processed_len, deleted_cnt) == processed_len

\* a guard that restores the length without closing the holes
BackshiftOnDrop_no_shift(buf, processed_len, deleted_cnt, original_len) ==
    [buffer |-> buf, len |-> original_len - deleted_cnt]

\* BackshiftOnDrop::drop: the buffer and the length it leaves
BackshiftOnDrop_drop(buf, processed_len, deleted_cnt, original_len) ==
    [buffer |-> IF deleted_cnt > 0
                THEN Copy(buf, processed_len, processed_len - deleted_cnt,
                          original_len - processed_len)
                ELSE buf,
     len |-> original_len - deleted_cnt]

\* the guard g runs: the call is over, by return or by unwinding
RetainFinish(g, buf, panicked) ==
    LET d == BackshiftOnDrop_drop(buf, g.processed_len, g.deleted_cnt,
                                  g.original_len) IN
    /\ vec_buffer' = d.buffer
    /\ vec_len' = d.len
    /\ call' = [g EXCEPT !.op = "retain_done", !.panicked = panicked]

\* the call continues with the guard g, or ends when every element was
\* processed
RetainContinue(g, buf) ==
    IF g.processed_len # g.original_len
    THEN /\ vec_buffer' = buf
         /\ vec_len' = vec_len
         /\ call' = g
    ELSE RetainFinish(g, buf, FALSE)

\* retain(f) (mutable = FALSE) or retain_mut(f) up to the first call of f
retain_begin(mutable) ==
    /\ mode = "vec"
    /\ VecIdle
    /\ LET g == [op |-> "retain", mutable |-> mutable,
                 processed_len |-> 0, deleted_cnt |-> 0,
                 original_len |-> vec_len, deleted |-> FALSE,
                 orig |-> as_slice, visited |-> <<>>, seen |-> <<>>,
                 indices |-> <<>>,
                 verdicts |-> <<>>, destroyed |-> <<>>,
                 panicked |-> FALSE, viol |-> "none"] IN
       \* set_len(0), then the two loops
       IF g.original_len = 0
       THEN RetainFinish(g, vec_buffer, FALSE)
       ELSE /\ vec_len' = 0
            /\ vec_buffer' = vec_buffer
            /\ call' = g
    /\ UNCHANGED <<vec_capacity, deque_vars>>

\* one iteration of process_loop: f is called on the current element; it
\* may write the element (retain_mut), and it returns true, returns false
\* or panics; the destructor of a rejected element may panic as well
retain_step ==
    /\ mode = "vec"
    /\ call.op = "retain"
    /\ call.processed_len # call.original_len
    /\ LET p   == cur_index(call.processed_len, call.deleted_cnt)
           cur == Cell(vec_buffer, p)
           g0  == [call EXCEPT !.visited = Append(@, cur),
                               !.indices = Append(@, p),
                               !.viol = IF @ # "none" THEN @
                                        ELSE SlotViol(vec_buffer, p)] IN
       \/ \* f panics
          RetainFinish(g0, vec_buffer, TRUE)
       \/ \* f returns false; the destructor returns or panics
          \E destructor_panics \in BOOLEAN :
            LET g == [g0 EXCEPT !.processed_len = @ + 1,
                                !.deleted_cnt = @ + 1,
                                !.deleted = TRUE,
                                !.seen = Append(@, cur),
                                !.verdicts = Append(@, FALSE),
                                !.destroyed = Append(@, cur)]
                buf == [vec_buffer EXCEPT ![p] = Uninit] IN
            IF destructor_panics THEN RetainFinish(g, buf, TRUE)
            ELSE RetainContinue(g, buf)
       \/ \* f returns true
          \E v \in (IF call.mutable THEN Values ELSE {cur}) :
            LET g == [g0 EXCEPT !.processed_len = @ + 1,
                                !.seen = Append(@, v),
                                !.verdicts = Append(@, TRUE)]
                written == [vec_buffer EXCEPT ![p] = v]
                buf == IF call.deleted
                       THEN Copy(written, p,
                                 hole_slot(p, call.deleted_cnt), 1)
                       ELSE written IN
            RetainContinue(g, buf)
    /\ UNCHANGED <<vec_capacity, deque_vars>>

\* ---- specification of a vector under push, pop and retain ----------------
NextRetain ==
    \/ \E item \in Values : vec_push(item)
    \/ vec_pop
    \/ \E mutable \in BOOLEAN : retain_begin(mutable)
    \/ retain_step

SpecRetain == VecInit /\ [][NextRetain]_vars

\* ---- Vec: drain ---------------------------------------------------------
\* a set_len that does not store the new length
set_len_ignored(new_len) == vec_len

\* VecInner::set_len: the length it stores
set_len(new_len) == new_len

\* a Drain whose tail starts at the start of the range
Drain_tail_at_start(original_len, start, end) ==
    [tail_start |-> start, tail_len |-> original_len - end,
     iter_ptr |-> start, iter_end |-> end]

\* the Drain that drain(start..end) builds over a vector of original_len
\* elements; iter is the slice iterator over the slots [start, end)
Drain(original_len, start, end) ==
    [tail_start |-> end, tail_len |-> original_len - end,
     iter_ptr |-> start, iter_end |-> end]

\* drain(start..end): panics on an inverted or out-of-bounds range, else
\* shortens the vector to start and returns the Drain
drain ==
    /\ mode = "vec"
    /\ VecIdle
    /\ \E start \in 0..(vec_capacity + 1), end \in 0..(vec_capacity + 1) :
         IF start > end \/ end > vec_len
         THEN /\ call' = [op |-> "drain_panic", start |-> start, end |-> end]
              /\ UNCHANGED <<vec_len, vec_buffer>>
         ELSE /\ vec_len' = set_len(start)
              /\ vec_buffer' = vec_buffer
              /\ call' = [op |-> "drain", start |-> start, end |-> end,
                          d |-> Drain(vec_len, start, end),
                          orig |-> as_slice, yielded |-> <<>>,
                          destroyed |-> <<>>, res |-> "-", viol |-> "none"]
    /\ UNCHANGED <<vec_capacity, deque_vars>>

\* Drain::next: moves the next element of the range out of its slot
drain_next ==
    /\ mode = "vec"
    /\ call.op = "drain"
    /\ LET i == call.d.iter_ptr IN
       IF i = call.d.iter_end
       THEN /\ call' = [call EXCEPT !.res = "None"]
            /\ UNCHANGED vec_buffer
       ELSE /\ call' = [call EXCEPT !.d.iter_ptr = i + 1,
                                    !.res = "Some",
                                    !.yielded = Append(@, Cell(vec_buffer, i)),
                                    !.viol = IF @ # "none" THEN @
                                             ELSE SlotViol(vec_buffer, i)]
            /\ vec_buffer' = [vec_buffer EXCEPT ![i] = Uninit]
    /\ UNCHANGED <<vec_len, vec_capacity, deque_vars>>

\* the slots of the range that Drain::next has not yielded
DrainRemaining == call.d.iter_ptr..(call.d.iter_end - 1)

\* Drain's destructor: drops the elements not yet yielded, moves the tail
\* down to the vector's length and adds the tail to the length
drain_drop ==
    /\ mode = "vec"
    /\ call.op = "drain"
    /\ LET rest    == DrainRemaining
           dropped == [j \in 1..Cardinality(rest) |->
                          Cell(vec_buffer, call.d.iter_ptr + j - 1)]
           buf     == [i \in DOMAIN vec_buffer |->
                          IF i \in rest THEN Uninit ELSE vec_buffer[i]]
           start   == vec_len IN
       /\ vec_buffer' = IF call.d.tail_len > 0 /\ call.d.tail_start # start
                        THEN Copy(buf, call.d.tail_start, start, call.d.tail_len)
                        ELSE buf
       /\ vec_len' = set_len(start + call.d.tail_len)
       /\ call' = [call EXCEPT !.op = "drain_done",
                               !.destroyed = dropped,
                               !.viol = IF @ # "none" THEN @
                                        ELSE IF \E i \in rest :
                                                  SlotViol(vec_buffer, i) # "none"
                                        THEN "dead_read" ELSE "none"]
    /\ UNCHANGED <<vec_capacity, deque_vars>>

\* mem::forget of the Drain: its destructor never runs
drain_forget ==
    /\ mode = "vec"
    /\ call.op = "drain"
    /\ call' = [call EXCEPT !.op = "drain_forgotten"]
    /\ UNCHANGED <<vec_len, vec_buffer, vec_capacity, deque_vars>>

\* ---- specification of a vector under push, pop and drain -----------------
NextDrain ==
    \/ \E item \in Values : vec_push(item)
    \/ vec_pop
    \/ drain
    \/ drain_next
    \/ drain_drop
    \/ drain_forget

SpecDrain == VecInit /\ [][NextDrain]_vars

\* ---- Vec: insert, remove, swap_remove -----------------------------------
\* an index, a length or a slice length a caller may pass, in and out of
\* bounds
VecArgs == 0..(vec_capacity + 1)

\* the slices of at most n elements a caller may pass
SlicesUpTo(n) == UNION {[1..k -> Values] : k \in 0..n}

\* the violation of reading or dropping the slots p .. p + n - 1
SlotsViol(buf, p, n) ==
    IF \E i \in p..(p + n - 1) : i \notin DOMAIN buf THEN "oob"
    ELSE IF \E i \in p..(p + n - 1) : buf[i] = Uninit THEN "dead_read"
    ELSE "none"

\* insert that writes the element without making room for it
insert_overwriting(buf, len0, index, element) ==
    [buf EXCEPT ![index] = element]

\* the buffer after insert's shift of [index, len) and write at index
insert_shifted(buf, len0, index, element) ==
    [Copy(buf, index, index + 1, len0 - index) EXCEPT ![index] = element]

vec_insert(index, element) ==
    /\ mode = "vec"
    /\ VecIdle
    /\ IF index > vec_len
       THEN /\ UNCHANGED <<vec_buffer, vec_len>>
            /\ call' = VecCall("insert", index, element, "panic", 0, as_slice,
                               <<>>, "none")
       ELSE IF vec_len = vec_capacity
       THEN /\ UNCHANGED <<vec_buffer, vec_len>>
            /\ call' = VecCall("insert", index, element, "Err", element,
                               as_slice, <<>>, "none")
       ELSE /\ vec_buffer' = insert_shifted(vec_buffer, vec_len, index, element)
            /\ vec_len' = set_len(vec_len + 1)
            /\ call' = VecCall("insert", index, element, "Ok", 0, as_slice,
                               <<>>, "none")
    /\ UNCHANGED <<vec_capacity, deque_vars>>

\* remove that leaves the tail where it is
remove_unshifted(buf, len0, index) ==
    [buf EXCEPT ![index] = Uninit]

\* the buffer after remove's read of slot index and shift of the tail
remove_shifted(buf, len0, index) ==
    Copy([buf EXCEPT ![index] = Uninit], index + 1, index, len0 - index - 1)

vec_remove(index) ==
    /\ mode = "vec"
    /\ VecIdle
    /\ IF index >= vec_len
       THEN /\ UNCHANGED <<vec_buffer, vec_len>>
            /\ call' = VecCall("remove", index, 0, "panic", 0, as_slice,
                               <<>>, "none")
       ELSE /\ vec_buffer' = remove_shifted(vec_buffer, vec_len, index)
            /\ vec_len' = set_len(vec_len - 1)
            /\ call' = VecCall("remove", index, 0, "Some", vec_buffer[index],
                               as_slice, <<>>, SlotViol(vec_buffer, index))
    /\ UNCHANGED <<vec_capacity, deque_vars>>

\* swap_remove_unchecked that fills the hole from the first slot
swap_remove_from_first(buf, length, index) ==
    Copy([buf EXCEPT ![index] = Uninit], 0, index, 1)

\* the buffer after swap_remove_unchecked's read of slot index and copy of
\* the last element into it
swap_remove_unchecked(buf, length, index) ==
    Copy([buf EXCEPT ![index] = Uninit], length - 1, index, 1)

vec_swap_remove(index) ==
    /\ mode = "vec"
    /\ VecIdle
    /\ IF ~(index < vec_len)
       THEN /\ UNCHANGED <<vec_buffer, vec_len>>
            /\ call' = VecCall("swap_remove", index, 0, "panic", 0, as_slice,
                               <<>>, "none")
       ELSE /\ vec_buffer' = swap_remove_unchecked(vec_buffer, vec_len, index)
            /\ vec_len' = vec_len - 1
            /\ call' = VecCall("swap_remove", index, 0, "Some",
                               vec_buffer[index], as_slice, <<>>,
                               SlotViol(vec_buffer, index))
    /\ UNCHANGED <<vec_capacity, deque_vars>>

\* ---- Vec: truncate, clear, resize, extend_from_slice --------------------
\* a drop_in_place that skips the first element of the slice
DroppedSlots_but_first(buf, p, n) ==
    [i \in DOMAIN buf |-> IF i \in (p + 1)..(p + n - 1) THEN Uninit ELSE buf[i]]

\* the buffer after drop_in_place destroyed the elements of [p, p + n)
DroppedSlots(buf, p, n) ==
    [i \in DOMAIN buf |-> IF i \in p..(p + n - 1) THEN Uninit ELSE buf[i]]

\* a truncate without the early return
truncate_never_returns(len0, new_len) == FALSE

\* truncate's early return
truncate_returns_early(len0, new_len) == new_len > len0

\* truncate(new_len), recorded as the call op with argument arg
Truncate(op, arg, item, new_len) ==
    IF truncate_returns_early(vec_len, new_len)
    THEN /\ UNCHANGED <<vec_buffer, vec_len>>
         /\ call' = VecCall(op, arg, item, "Ok", 0, as_slice, <<>>, "none")
    ELSE LET remaining_len == vec_len - new_len IN
         /\ vec_len' = new_len
         /\ vec_buffer' = DroppedSlots(vec_buffer, new_len, remaining_len)
         /\ call' = VecCall(op, arg, item, "Ok", 0, as_slice,
                            SliceOf(vec_buffer, new_len, remaining_len),
                            SlotsViol(vec_buffer, new_len, remaining_len))

vec_truncate(new_len) ==
    /\ mode = "vec"
    /\ VecIdle
    /\ Truncate("truncate", new_len, 0, new_len)
    /\ UNCHANGED <<vec_capacity, deque_vars>>

vec_clear ==
    /\ mode = "vec"
    /\ VecIdle
    /\ Truncate("clear", 0, 0, 0)
    /\ UNCHANGED <<vec_capacity, deque_vars>>

\* a resize that grows by one element only
resize_grow_once(buf, len0, new_len, value) ==
    [buf EXCEPT ![len0] = value]

\* the buffer after resize's loop of push(value.clone())
resize_grow(buf, len0, new_len, value) ==
    [i \in DOMAIN buf |-> IF i \in len0..(new_len - 1) THEN value ELSE buf[i]]

\* resize(new_len, value); resize_default passes the default value
vec_resize(new_len, value) ==
    /\ mode = "vec"
    /\ VecIdle
    /\ IF new_len > vec_capacity
       THEN /\ UNCHANGED <<vec_buffer, vec_len>>
            /\ call' = VecCall("resize", new_len, value, "Err", 0, as_slice,
                               <<>>, "none")
       ELSE IF new_len > vec_len
       THEN /\ vec_buffer' = resize_grow(vec_buffer, vec_len, new_len, value)
            /\ vec_len' = new_len
            /\ call' = VecCall("resize", new_len, value, "Ok", 0, as_slice,
                               <<>>, "none")
       ELSE Truncate("resize", new_len, value, new_len)
    /\ UNCHANGED <<vec_capacity, deque_vars>>

\* an extend_from_slice that appends what fits
extend_fits_partly(len0, other, cap) == len0 < cap

\* extend_from_slice_inner's check that other fits
extend_fits(len0, other, cap) == ~(len0 + Len(other) > cap)

\* extend_from_slice(other); from_slice is the same call on a new vector
vec_extend_from_slice(other) ==
    /\ mode = "vec"
    /\ VecIdle
    /\ IF ~extend_fits(vec_len, other, vec_capacity)
       THEN /\ UNCHANGED <<vec_buffer, vec_len>>
            /\ call' = [VecCall("extend_from_slice", 0, 0, "Err", 0, as_slice,
                                <<>>, "none") EXCEPT !.item = other]
       ELSE /\ vec_buffer' = [i \in DOMAIN vec_buffer |->
                                IF i \in vec_len..(vec_len + Len(other) - 1)
                                THEN other[i - vec_len + 1]
                                ELSE vec_buffer[i]]
            /\ vec_len' = vec_len + Len(other)
            /\ call' = [VecCall("extend_from_slice", 0, 0, "Ok", 0, as_slice,
                                <<>>, "none") EXCEPT !.item = other]
    /\ UNCHANGED <<vec_capacity, deque_vars>>

\* ---- Vec: spare_capacity_mut and set_len --------------------------------
\* a spare capacity that starts one slot late
spare_capacity_after_len(len0, cap) == [start |-> len0 + 1, len |-> cap - len0]

\* spare_capacity_mut: the slots buffer[len..] it exposes
spare_capacity_mut(len0, cap) == [start |-> len0, len |-> cap - len0]

\* the caller takes spare_capacity_mut(), writes written into its first
\* slots and calls set_len(len + Len(written))
spare_capacity_fill(written) ==
    /\ mode = "vec"
    /\ VecIdle
    /\ LET spare == spare_capacity_mut(vec_len, vec_capacity) IN
       /\ Len(written) <= spare.len
       /\ vec_buffer' = [i \in DOMAIN vec_buffer |->
                           IF i \in spare.start..(spare.start + Len(written) - 1)
                           THEN written[i - spare.start + 1]
                           ELSE vec_buffer[i]]
       /\ vec_len' = set_len(vec_len + Len(written))
       /\ call' = [VecCall("spare_capacity_mut", spare.start, 0, "Ok",
                           spare.len, as_slice, <<>>, "none")
                     EXCEPT !.item = written]
    /\ UNCHANGED <<vec_capacity, deque_vars>>

\* ---- Vec: drop and IntoIter ---------------------------------------------
\* impl Drop for VecInner: drop_in_place of as_mut_slice()
vec_drop ==
    /\ mode = "vec"
    /\ VecIdle
    /\ vec_buffer' = DroppedSlots(vec_buffer, 0, vec_len)
    /\ call' = VecCall("drop", 0, 0, "-", 0, as_slice, as_slice,
                       SlotsViol(vec_buffer, 0, vec_len))
    /\ mode' = "vec_dropped"
    /\ UNCHANGED <<vec_len, vec_capacity, capacity, front, back, full, buffer,
                   ret, net, ub, it>>

\* Vec::into_iter: IntoIter { vec: self, next: 0 }
vec_into_iter ==
    /\ mode = "vec"
    /\ VecIdle
    /\ call' = [VecCall("into_iter", 0, 0, "-", 0, as_slice, <<>>, "none")
                  EXCEPT !.item = <<>>]
    /\ mode' = "vec_into_iter"
    /\ UNCHANGED <<vec_len, vec_buffer, vec_capacity, capacity, front, back,
                   full, buffer, ret, net, ub, it>>

\* IntoIter::next; index is the field next, item the elements yielded
vec_into_iter_next ==
    /\ mode = "vec_into_iter"
    /\ IF call.index < vec_len
       THEN /\ vec_buffer' = [vec_buffer EXCEPT ![call.index] = Uninit]
            /\ call' = [call EXCEPT !.op = "into_iter_next",
                                    !.index = @ + 1,
                                    !.res = "Some",
                                    !.val = vec_buffer[call.index],
                                    !.item = Append(@, vec_buffer[call.index]),
                                    !.viol = IF @ # "none" THEN @
                                             ELSE SlotViol(vec_buffer, call.index)]
       ELSE /\ UNCHANGED vec_buffer
            /\ call' = [call EXCEPT !.op = "into_iter_next", !.res = "None",
                                    !.val = 0]
    /\ UNCHANGED <<vec_len, vec_capacity, deque_vars>>

\* an IntoIter destructor that leaves the length to the vector's own drop
into_iter_drop_keeps_len(len0) == len0

\* impl Drop for IntoIter: the length it leaves to the vector's own drop
into_iter_drop_len(len0) == 0

\* impl Drop for IntoIter, then the drop of its field vec
vec_into_iter_drop ==
    /\ mode = "vec_into_iter"
    /\ LET rest == vec_len - call.index
           buf  == DroppedSlots(vec_buffer, call.index, rest)
           len1 == into_iter_drop_len(vec_len)
           v1   == SlotsViol(vec_buffer, call.index, rest)
           v2   == SlotsViol(buf, 0, len1) IN
       /\ vec_buffer' = DroppedSlots(buf, 0, len1)
       /\ vec_len' = len1
       /\ call' = [call EXCEPT !.op = "into_iter_drop",
                               !.destroyed = SliceOf(vec_buffer, call.index, rest)
                                                \o SliceOf(buf, 0, len1),
                               !.viol = IF @ # "none" THEN @
                                        ELSE IF v1 # "none" THEN v1 ELSE v2]
    /\ mode' = "vec_dropped"
    /\ UNCHANGED <<vec_capacity, capacity, front, back, full, buffer, ret, net,
                   ub, it>>

\* ---- specification of the safe operations of a vector --------------------
NextVecOps ==
    \/ \E item \in Values : vec_push(item)
    \/ vec_pop
    \/ \E index \in VecArgs, element \in Values : vec_insert(index, element)
    \/ \E index \in VecArgs : vec_remove(index)
    \/ \E index \in VecArgs : vec_swap_remove(index)
    \/ \E new_len \in VecArgs : vec_truncate(new_len)
    \/ vec_clear
    \/ \E new_len \in VecArgs, value \in Values : vec_resize(new_len, value)
    \/ \E other \in SlicesUpTo(MaxSliceLen) : vec_extend_from_slice(other)

SpecVecOps == VecInit /\ [][NextVecOps]_vars

\* ---- specification of the safe operations with retain and drain ----------
NextVec ==
    \/ NextVecOps
    \/ \E mutable \in BOOLEAN : retain_begin(mutable)
    \/ retain_step
    \/ drain
    \/ drain_next
    \/ drain_drop

SpecVec == VecInit /\ [][NextVec]_vars

\* ---- specification of a vector from new() to its drop --------------------
NextVecLifetime ==
    \/ NextVec
    \/ vec_drop
    \/ vec_into_iter
    \/ vec_into_iter_next
    \/ vec_into_iter_drop

SpecVecLifetime == VecInit /\ [][NextVecLifetime]_vars

\* ---- Vec: truncate with destructors that may panic ----------------------
\* a truncate that would store the new length after drop_in_place returned
truncate_len_after_drop(len0, new_len) == len0

\* the field len while truncate's drop_in_place runs
truncate_len_at_drop(len0, new_len) == new_len

\* truncate(new_len) up to the call of drop_in_place on the slice
\* [new_len, len); index is new_len, next the element to destroy next
truncate_begin(new_len) ==
    /\ mode = "vec"
    /\ VecIdle
    /\ ~truncate_returns_early(vec_len, new_len)
    /\ vec_len - new_len > 0
    /\ vec_len' = truncate_len_at_drop(vec_len, new_len)
    /\ vec_buffer' = vec_buffer
    /\ call' = [op |-> "truncate_dropping", index |-> new_len,
                next |-> new_len, end |-> vec_len, orig |-> as_slice,
                destroyed |-> <<>>, panicked |-> FALSE, res |-> "-",
                viol |-> "none"]
    /\ UNCHANGED <<vec_capacity, deque_vars>>

\* drop_in_place of the slice runs the destructor of its next element; the
\* destructor returns or panics. After a first panic the remaining
\* elements are still destroyed while unwinding; a second panic aborts the
\* program. truncate has no statement after drop_in_place.
truncate_drop_next ==
    /\ mode = "vec"
    /\ call.op = "truncate_dropping"
    /\ \E destructor_panics \in BOOLEAN :
         LET i == call.next
             panicked == call.panicked \/ destructor_panics
             g == [call EXCEPT !.next = i + 1,
                               !.destroyed = Append(@, Cell(vec_buffer, i)),
                               !.panicked = panicked,
                               !.viol = IF @ # "none" THEN @
                                        ELSE SlotViol(vec_buffer, i)] IN
         /\ vec_buffer' = DroppedSlots(vec_buffer, i, 1)
         /\ IF call.panicked /\ destructor_panics
            THEN /\ mode' = "aborted"
                 /\ call' = [g EXCEPT !.op = "truncate_aborted",
                                      !.res = "abort"]
            ELSE /\ mode' = mode
                 /\ call' = IF i + 1 = call.end
                            THEN [g EXCEPT !.op = "truncate_done",
                                           !.res = IF panicked THEN "panic"
                                                   ELSE "Ok"]
                            ELSE g
    /\ UNCHANGED <<vec_len, vec_capacity, capacity, front, back, full, buffer,
                   ret, net, ub, it>>

\* ---- specification of a vector truncated with panicking destructors ----
NextTruncate ==
    \/ \E item \in Values : vec_push(item)
    \/ vec_pop
    \/ \E new_len \in VecArgs : vec_truncate(new_len)
    \/ \E new_len \in VecArgs : truncate_begin(new_len)
    \/ truncate_drop_next
    \/ vec_drop

SpecTruncate == VecInit /\ [][NextTruncate]_vars

\* ---- specification of a vector filled through its spare capacity ---------
NextSpare ==
    \/ \E item \in Values : vec_push(item)
    \/ vec_pop
    \/ \E index \in VecArgs : vec_remove(index)
    \/ \E written \in SlicesUpTo(vec_capacity) : spare_capacity_fill(written)

SpecSpare == VecInit /\ [][NextSpare]_vars

\* ---- Extend for a deque -------------------------------------------------
\* push_back returned Err(item): .ok().unwrap() panics
extend_refused(d) == [d EXCEPT !.res = "panic", !.stopped = TRUE]

\* the loop of extend over the items left, on the deque d
RECURSIVE extend_loop(_, _)
extend_loop(d, items) ==
    IF items = <<>> \/ d.stopped THEN d
    ELSE LET item == Head(items)
             b    == increment(d.back) IN
         IF d.full THEN extend_refused(d)
         ELSE IF ~InBounds(d.back)
         THEN [d EXCEPT !.res = "Ok", !.viol = "oob", !.stopped = TRUE]
         ELSE extend_loop(
                [d EXCEPT !.buffer = [d.buffer EXCEPT ![d.back] = item],
                          !.back = b,
                          !.full = IF d.front = b THEN TRUE ELSE d.full,
                          !.pushed = @ + 1,
                          !.viol = IF @ # "none" THEN @
                                   ELSE IF d.buffer[d.back] # Uninit
                                   THEN "live_write" ELSE "none"],
                Tail(items))

\* Extend::extend(iter) with the items the iterator yields
extend(items) ==
    /\ ~ub
    /\ UNCHANGED <<mode, it, vec_vars>>
    /\ net + Len(items) <= MaxNet
    /\ capacity' = capacity
    /\ LET d == extend_loop([front |-> front, back |-> back, full |-> full,
                             buffer |-> buffer, pushed |-> 0, res |-> "Ok",
                             viol |-> "none", stopped |-> FALSE], items) IN
       /\ net' = net + d.pushed
       /\ ret' = Ret("extend", items, d.res, d.pushed, <<>>, d.viol)
       /\ IF d.viol = "oob"
          THEN /\ \E f \in 0..capacity, b \in 0..(capacity + 1), fl \in BOOLEAN :
                     front' = f /\ back' = b /\ full' = fl
               /\ buffer' = d.buffer
               /\ ub' = TRUE
          ELSE /\ front' = d.front
               /\ back' = d.back
               /\ full' = d.full
               /\ buffer' = d.buffer
               /\ ub' = ub

\* ---- specification of a deque under push, pop, make_contiguous, extend ---
NextExtend ==
    \/ \E item \in Values : push_front(item)
    \/ \E item \in Values : push_back(item)
    \/ pop_front
    \/ pop_back
    \/ make_contiguous
    \/ \E items \in SlicesUpTo(MaxSliceLen) : extend(items)

SpecExtend == Init /\ [][NextExtend]_vars

\* ---- specification of push/pop and make_contiguous on contiguous deques --
\* make_contiguous called on a deque with front <= capacity - len
make_contiguous_in_place ==
    /\ front <= capacity - len
    /\ make_contiguous

NextInPlace ==
    \/ \E item \in Values : push_front(item)
    \/ \E item \in Values : push_back(item)
    \/ pop_front
    \/ pop_back
    \/ make_contiguous_in_place

SpecInPlace == Init /\ [][NextInPlace]_vars

\* ---- helpers of the properties ------------------------------------------
Last(s) == s[Len(s)]

Front(s) == SubSeq(s, 1, Len(s) - 1)

AllElements(s) == \A i \in 1..Len(s) : s[i] \in Values

\* C1: over push_front, push_back, pop_front and pop_back from new(), the
\* deque refines a bounded sequence: an Ok push_back appends its item, an Ok
\* push_front prepends it, pop_front returns and removes the first element,
\* pop_back returns and removes the last one, and a rejected push or a pop
\* of an empty deque changes nothing (so push_back x1..xk then pop_front
\* until empty returns x1..xk in push order).
C1_RefinesSequence ==
    [][ /\ AllElements(contents')
        /\ (ret'.op = "push_back" /\ ret'.res = "Ok")
              => contents' = Append(contents, ret'.item)
        /\ (ret'.op = "push_front" /\ ret'.res = "Ok")
              => contents' = <<ret'.item>> \o contents
        /\ (ret'.op = "pop_front" /\ contents # <<>>)
              => /\ ret'.res = "Some"
                 /\ ret'.val = Head(contents)
                 /\ contents' = Tail(contents)
        /\ (ret'.op = "pop_back" /\ contents # <<>>)
              => /\ ret'.res = "Some"
                 /\ ret'.val = Last(contents)
                 /\ contents' = Front(contents)
        /\ (ret'.res \in {"Err", "None"}) => contents' = contents
        /\ (ret'.res = "Err") => Len(contents) = capacity
        /\ (ret'.res = "None") => contents = <<>>
      ]_vars

\* a pop_front has returned an element and the remaining elements wrap
\* around the end of the buffer
C1_Witness ==
    /\ ret.op = "pop_front" /\ ret.res = "Some"
    /\ back < front /\ back > 0
    /\ Len(contents) >= 2

\* C2: make_contiguous() leaves the flattened sequence first ++ second of
\* as_slices() as it was before the call.
C2_FlattenedUnchanged ==
    [][ret'.op = "make_contiguous" => contents' = contents]_vars

\* C3: both cursors stay inside the buffer: 0 <= front < capacity and
\* 0 <= back < capacity.
C3_CursorsInBuffer == InBounds(front) /\ InBounds(back)

\* C4: full is true only if front = back.
C4_FullOnlyIfCursorsMeet == full => front = back

\* C5: every slot a call reads or destroys is a live slot inside the buffer
\* and every slot a push writes is a dead slot inside the buffer.
C5_AccessesLiveSlots == ret.viol = "none"

\* C6: is_full() iff len() = capacity(), is_empty() iff len() = 0, and the
\* two never hold together.
C6_FullEmptyLen ==
    /\ is_full <=> len = capacity
    /\ is_empty <=> len = 0
    /\ ~(is_full /\ is_empty)

\* C7: after checked pushes and pops, len() is the number of pushes that
\* returned Ok minus the number of pops that returned Some, and
\* 0 <= len() <= capacity().
C7_LenIsPushesMinusPops == len = net /\ 0 <= len /\ len <= capacity

\* pushes and pops have both succeeded and the live region wraps
C7_Witness ==
    /\ ret.op = "pop_back" /\ ret.res = "Some"
    /\ net >= 2 /\ back < front

\* C8: a push on a full deque returns Err(item) with the same item and
\* leaves front, back, full and the buffer unchanged; a push on a deque
\* that is not full returns Ok and stores the item at its end.
C8_PushFullOrStore ==
    [][ (ret'.op \in {"push_front", "push_back"}) =>
          IF is_full
          THEN /\ ret'.res = "Err" /\ ret'.val = ret'.item
               /\ UNCHANGED <<front, back, full, buffer>>
          ELSE /\ ret'.res = "Ok"
               /\ Len(contents') = Len(contents) + 1
               /\ ret'.op = "push_back" => Last(contents') = ret'.item
               /\ ret'.op = "push_front" => Head(contents') = ret'.item
      ]_vars

\* C9: a pop on an empty deque returns None and leaves front, back and full
\* unchanged; a pop on a non-empty deque returns Some(element), reduces
\* len() by exactly one and leaves full false.
C9_PopEmptyOrRemove ==
    [][ (ret'.op \in {"pop_front", "pop_back"}) =>
          IF is_empty
          THEN /\ ret'.res = "None"
               /\ UNCHANGED <<front, back, full>>
          ELSE /\ ret'.res = "Some"
               /\ ret'.viol = "none"
               /\ len' = len - 1
               /\ full' = FALSE
      ]_vars

\* C10: the slice make_contiguous() returns has length len() as measured
\* before the call and holds exactly the deque's elements front to back:
\* it equals first ++ second of as_slices() before the call.
C10_ReturnedSlice ==
    [][ ret'.op = "make_contiguous" =>
          /\ Len(ret'.slice) = len
          /\ ret'.slice = contents
          /\ AllElements(ret'.slice)
      ]_vars

\* C11: after make_contiguous() the second segment of as_slices() is empty,
\* and the first one is empty exactly when the deque holds no element.
C11_SingleSegmentAfter ==
    [][ ret'.op = "make_contiguous" =>
          /\ as_slices'[2] = <<>>
          /\ (as_slices'[1] = <<>>) <=> (net = 0)
      ]_vars

\* the live region read slot by slot from front, wrapping at the buffer end
RingWalk == [i \in 1..len |-> Cell(buffer, (front + i - 1) % capacity)]

\* the live region runs past the end of the buffer
Wraps == front + len > capacity

\* C12: over push/pop/clear, as_slices() = (first, second) where first starts
\* at slot front and runs to back or to the buffer end, second runs from
\* slot 0 to back when the live region wraps and is empty otherwise, and
\* first ++ second is the front-to-back element sequence, len() long.
C12_AsSlicesShape ==
    LET first == as_slices[1]
        second == as_slices[2] IN
    /\ Len(first) + Len(second) = len
    /\ first \o second = RingWalk
    /\ AllElements(first \o second)
    /\ first = SliceOf(buffer, front, IF Wraps THEN capacity - front ELSE len)
    /\ second = (IF Wraps THEN SliceOf(buffer, 0, back) ELSE <<>>)
    /\ Wraps => second # <<>>
    /\ is_empty => (first = <<>> /\ second = <<>>)

\* a full deque whose live region wraps: both segments are non-empty
C12_Witness ==
    /\ full /\ front > 1
    /\ Len(as_slices[1]) >= 2 /\ Len(as_slices[2]) >= 2

\* C13: every element placed into the deque is destroyed exactly once: a pop,
\* clear() or the drop never destroys or hands out a slot that is not live,
\* and once the deque (or the IntoIter owning it) is dropped no element is
\* left in the buffer and every pushed element has been handed out or
\* destroyed.
C13_DestroyedExactlyOnce ==
    /\ ret.op \in {"drop", "clear", "pop_front", "pop_back"}
          => ret.viol = "none"
    /\ mode = "dropped"
          => /\ \A i \in DOMAIN buffer : buffer[i] = Uninit
             /\ net = 0

\* C14: clear() destroys each live element exactly once (and no slot that
\* is not live) and leaves front = 0, back = 0, full = false, len() = 0 with
\* no element left in the buffer.
C14_ClearEmpties ==
    [][ ret'.op = "clear" =>
          /\ ret'.viol = "none"
          /\ front' = 0 /\ back' = 0 /\ full' = FALSE
          /\ len' = 0
          /\ net' = 0
          /\ \A i \in DOMAIN buffer : buffer'[i] = Uninit
      ]_vars

\* C15: front() returns the first element of the logical sequence, back()
\* the last one, both None exactly when the deque is empty, and neither
\* changes front, back, full or the buffer.
C15_FrontBack ==
    [][ /\ ret'.op = "front" =>
             /\ IF contents = <<>> THEN ret'.res = "None"
                ELSE /\ ret'.res = "Some"
                     /\ ret'.val = Head(contents)
                     /\ ret'.viol = "none"
             /\ UNCHANGED <<front, back, full, buffer>>
        /\ ret'.op = "back" =>
             /\ IF contents = <<>> THEN ret'.res = "None"
                ELSE /\ ret'.res = "Some"
                     /\ ret'.val = Last(contents)
                     /\ ret'.viol = "none"
             /\ UNCHANGED <<front, back, full, buffer>>
      ]_vars

\* C16: an iterator yields each live element once: what next() has yielded
\* is a prefix of first ++ second of as_slices(), what next_back() has
\* yielded is its suffix read backwards, the two never overlap, and the
\* iterator reports the end exactly after len() items.
C16_IterOrder ==
    it.kind \in {"iter", "view"} =>
        LET c == contents
            n == Len(c) IN
        /\ Len(it.fwd) + Len(it.bwd) <= n
        /\ \A j \in 1..Len(it.fwd) : j <= n /\ it.fwd[j] = c[j]
        /\ \A j \in 1..Len(it.bwd) : j <= n /\ it.bwd[j] = c[n - j + 1]
        /\ AllElements(it.fwd \o it.bwd)
        /\ (ret.op \in {"next", "next_back"} /\ ret.res = "None")
              => Len(it.fwd) + Len(it.bwd) = n
        /\ n = len

\* the elements of seq whose verdict equals keep, in order
RECURSIVE Filtered(_, _, _)
Filtered(seq, verdicts, keep) ==
    IF seq = <<>> \/ verdicts = <<>> THEN <<>>
    ELSE (IF Head(verdicts) = keep THEN <<Head(seq)>> ELSE <<>>)
         \o Filtered(Tail(seq), Tail(verdicts), keep)

\* no live element lies outside [0, len) of the vector
NoLiveBeyondLen ==
    \A i \in DOMAIN vec_buffer : i >= vec_len => vec_buffer[i] = Uninit

\* C17: after retain / retain_mut returns, every element was visited once
\* in the original order, the vector holds exactly the elements the
\* predicate accepted, in their original order, len() is their number, and
\* every rejected element was destroyed exactly once.
C17_RetainFilters ==
    (call.op = "retain_done" /\ ~call.panicked) =>
        /\ call.visited = call.orig
        /\ Len(call.verdicts) = Len(call.orig)
        /\ ~call.mutable => call.seen = call.orig
        /\ as_slice = Filtered(call.seen, call.verdicts, TRUE)
        /\ vec_len = Len(Filtered(call.seen, call.verdicts, TRUE))
        /\ call.destroyed = Filtered(call.visited, call.verdicts, FALSE)
        /\ AllElements(as_slice)
        /\ call.viol = "none"
        /\ NoLiveBeyondLen

C17_Witness ==
    /\ call.op = "retain_done"
    /\ ~call.panicked
    /\ call.verdicts = <<FALSE, TRUE, TRUE>>
    /\ as_slice = <<2, 1>>

\* C18: while retain runs the recorded length is 0; when the guard has run,
\* after a panic of the predicate or of a destructor as after a return,
\* len() is original_len - deleted_cnt, the vector holds the kept elements
\* followed by the unprocessed ones, no element was destroyed twice and no
\* live element lies outside [0, len).
C18_RetainPanicSafe ==
    /\ call.op = "retain" => vec_len = 0
    /\ call.op = "retain_done" =>
        LET kept == Filtered(call.seen, call.verdicts, TRUE)
            unprocessed == SubSeq(call.orig, call.processed_len + 1,
                                  call.original_len) IN
        /\ vec_len = call.original_len - call.deleted_cnt
        /\ as_slice = kept \o unprocessed
        /\ AllElements(as_slice)
        /\ Len(call.destroyed) = call.deleted_cnt
        /\ call.destroyed = Filtered(call.visited, call.verdicts, FALSE)
        /\ call.viol = "none"
        /\ NoLiveBeyondLen

C18_Witness ==
    /\ call.op = "retain_done"
    /\ call.panicked
    /\ call.deleted_cnt = 1
    /\ call.processed_len = 2
    /\ call.original_len = 3
    /\ vec_len = 2

\* C19: when the Drain of drain(start..end) has been dropped, after any
\* number of next() calls, the vector is the original without [start, end),
\* len() is original_len - (end - start), and what next() yielded followed
\* by what the destructor dropped is the original slice at [start, end).
C19_DrainRemovesRange ==
    call.op = "drain_done" =>
        LET n == Len(call.orig) IN
        /\ as_slice = SubSeq(call.orig, 1, call.start)
                        \o SubSeq(call.orig, call.end + 1, n)
        /\ vec_len = n - (call.end - call.start)
        /\ call.yielded \o call.destroyed
              = SubSeq(call.orig, call.start + 1, call.end)
        /\ call.res = "None" => call.destroyed = <<>>
        /\ call.viol = "none"
        /\ \A i \in vec_len..(n - 1) : vec_buffer[i] = Uninit

C19_Witness ==
    /\ call.op = "drain_done"
    /\ call.orig = <<1, 2, 1>>
    /\ call.start = 1
    /\ call.end = 2
    /\ call.yielded = <<2>>
    /\ as_slice = <<1, 1>>

\* C20: while the Drain is outstanding len() equals range.start; when the
\* Drain is forgotten len() stays range.start, the vector is the original
\* prefix, and from then on every slot below len() is live, so nothing is
\* destroyed twice: the range and the tail are only leaked.
C20_LenIsStartWhileDraining ==
    /\ call.op \in {"drain", "drain_forgotten"} =>
          /\ vec_len = call.start
          /\ as_slice = SubSeq(call.orig, 1, call.start)
          /\ call.viol = "none"
    /\ AllElements(as_slice)

C20_Witness ==
    /\ call.op = "drain_forgotten"
    /\ call.start = 1
    /\ call.end = 2
    /\ call.yielded = <<>>
    /\ vec_len = 1
    /\ Cell(vec_buffer, 1) # Uninit
    /\ Cell(vec_buffer, 2) # Uninit

\* the violation recorded by the last call on the vector
CallViol == IF call.op \in {"idle", "drain_panic"} THEN "none" ELSE call.viol

\* C21: after any sequence of safe vector operations 0 <= len <= capacity,
\* every slot of [0, len) holds a live element (as_slice() is these slots in
\* order), no call read or dropped a dead slot, and when no retain or drain
\* is running no slot of [len, capacity) holds an element.
C21_VecInvariant ==
    /\ 0 <= vec_len
    /\ vec_len <= vec_capacity
    /\ DOMAIN vec_buffer = 0..(vec_capacity - 1)
    /\ as_slice = [i \in 1..vec_len |-> vec_buffer[i - 1]]
    /\ AllElements(as_slice)
    /\ CallViol = "none"
    /\ VecIdle => NoLiveBeyondLen

C21_Witness ==
    /\ call.op = "truncate"
    /\ call.orig = <<1, 2, 1>>
    /\ call.index = 1
    /\ vec_len = 1
    /\ vec_capacity = 3

\* C22: push stores the item at index len and increments len when
\* len < capacity, else returns Err(item) and changes nothing; pop returns
\* the last element and decrements len, or None on an empty vector.
C22_PushPop ==
    /\ call.op = "push" =>
         IF Len(call.orig) < vec_capacity
         THEN /\ call.res = "Ok"
              /\ as_slice = Append(call.orig, call.item)
              /\ vec_len = Len(call.orig) + 1
         ELSE /\ call.res = "Err"
              /\ call.val = call.item
              /\ as_slice = call.orig
    /\ call.op = "pop" =>
         IF call.orig # <<>>
         THEN /\ call.res = "Some"
              /\ call.val = Last(call.orig)
              /\ as_slice = Front(call.orig)
              /\ vec_len = Len(call.orig) - 1
              /\ call.viol = "none"
         ELSE /\ call.res = "None"
              /\ as_slice = <<>>

C22_Witness ==
    /\ call.op = "pop"
    /\ call.orig = <<1, 1, 2>>
    /\ call.val = 2
    /\ as_slice = <<1, 1>>

\* C23: insert(index, item) panics when index > len, returns Err(item) when
\* index <= len and the vector is full, both without changing the vector;
\* otherwise it returns Ok and the vector is
\* original[0..index] ++ [item] ++ original[index..len].
C23_Insert ==
    call.op = "insert" =>
        LET n == Len(call.orig) IN
        IF call.index > n
        THEN call.res = "panic" /\ as_slice = call.orig
        ELSE IF n = vec_capacity
        THEN call.res = "Err" /\ call.val = call.item /\ as_slice = call.orig
        ELSE /\ call.res = "Ok"
             /\ vec_len = n + 1
             /\ as_slice = SubSeq(call.orig, 1, call.index) \o <<call.item>>
                             \o SubSeq(call.orig, call.index + 1, n)

C23_Witness ==
    /\ call.op = "insert"
    /\ call.res = "Ok"
    /\ call.orig = <<1, 1>>
    /\ call.index = 1
    /\ as_slice = <<1, 2, 1>>

\* C24: remove(index) panics when index >= len without changing the vector;
\* otherwise it returns original[index] and the vector is
\* original[0..index] ++ original[index+1..len], the removed element no
\* longer held by any slot.
C24_Remove ==
    call.op = "remove" =>
        LET n == Len(call.orig) IN
        IF call.index >= n
        THEN call.res = "panic" /\ as_slice = call.orig
        ELSE /\ call.res = "Some"
             /\ call.val = call.orig[call.index + 1]
             /\ call.viol = "none"
             /\ vec_len = n - 1
             /\ as_slice = SubSeq(call.orig, 1, call.index)
                             \o SubSeq(call.orig, call.index + 2, n)
             /\ vec_buffer[n - 1] = Uninit

C24_Witness ==
    /\ call.op = "remove"
    /\ call.orig = <<2, 1, 1>>
    /\ call.index = 0
    /\ call.val = 2
    /\ as_slice = <<1, 1>>

\* C25: swap_remove(index) panics when index >= len; otherwise it returns
\* original[index], len decreases by one, slot index holds the former last
\* element and every other slot below the new len is unchanged.
C25_SwapRemove ==
    call.op = "swap_remove" =>
        LET n == Len(call.orig) IN
        IF call.index >= n
        THEN call.res = "panic" /\ as_slice = call.orig
        ELSE /\ call.res = "Some"
             /\ call.val = call.orig[call.index + 1]
             /\ call.viol = "none"
             /\ vec_len = n - 1
             /\ as_slice = [j \in 1..(n - 1) |->
                              IF j = call.index + 1 THEN call.orig[n]
                              ELSE call.orig[j]]
             /\ vec_buffer[n - 1] = Uninit

C25_Witness ==
    /\ call.op = "swap_remove"
    /\ call.orig = <<1, 1, 2>>
    /\ call.index = 0
    /\ as_slice = <<2, 1>>

\* C26: truncate(newLen) changes nothing when newLen > len; otherwise it
\* destroys exactly the elements of [newLen, len), once each, keeps
\* [0, newLen) and sets len = newLen; clear() does what truncate(0) does.
C26_Truncate ==
    /\ call.op = "truncate" =>
         LET n == Len(call.orig) IN
         IF call.index > n
         THEN as_slice = call.orig /\ call.destroyed = <<>>
         ELSE /\ vec_len = call.index
              /\ as_slice = SubSeq(call.orig, 1, call.index)
              /\ call.destroyed = SubSeq(call.orig, call.index + 1, n)
              /\ call.viol = "none"
              /\ \A i \in call.index..(n - 1) : vec_buffer[i] = Uninit
    /\ call.op = "clear" =>
         /\ vec_len = 0
         /\ call.destroyed = call.orig
         /\ call.viol = "none"
         /\ \A i \in 0..(Len(call.orig) - 1) : vec_buffer[i] = Uninit

C26_Witness ==
    /\ call.op = "truncate"
    /\ call.orig = <<2, 1, 2>>
    /\ call.index = 2
    /\ call.destroyed = <<2>>
    /\ as_slice = <<2, 1>>

\* C27: resize(newLen, value) returns Err and changes nothing when
\* newLen > capacity; otherwise it returns Ok with len = newLen, the first
\* min(old len, newLen) elements unchanged and every slot of
\* [old len, newLen) equal to value.
C27_Resize ==
    call.op = "resize" =>
        LET n == Len(call.orig) IN
        IF call.index > vec_capacity
        THEN call.res = "Err" /\ as_slice = call.orig
        ELSE /\ call.res = "Ok"
             /\ vec_len = call.index
             /\ as_slice = [j \in 1..call.index |->
                              IF j <= n THEN call.orig[j] ELSE call.item]
             /\ call.destroyed = SubSeq(call.orig, call.index + 1, n)
             /\ call.viol = "none"

C27_Witness ==
    /\ call.op = "resize"
    /\ call.orig = <<1>>
    /\ call.index = 3
    /\ call.item = 2
    /\ as_slice = <<1, 2, 2>>

\* C28: extend_from_slice(other) returns Err and changes neither len nor
\* the contents when len + other.len() > capacity; otherwise it appends the
\* elements of other in order. On a new vector this is from_slice.
C28_ExtendAllOrNothing ==
    call.op = "extend_from_slice" =>
        LET n == Len(call.orig) IN
        IF n + Len(call.item) > vec_capacity
        THEN /\ call.res = "Err"
             /\ vec_len = n
             /\ as_slice = call.orig
             /\ NoLiveBeyondLen
        ELSE /\ call.res = "Ok"
             /\ vec_len = n + Len(call.item)
             /\ as_slice = call.orig \o call.item

C28_Witness ==
    /\ call.op = "extend_from_slice"
    /\ call.res = "Err"
    /\ call.orig = <<1, 2>>
    /\ call.item = <<2, 1>>
    /\ vec_capacity = 3
    /\ as_slice = <<1, 2>>

\* C29: no call moves out or destroys a slot that holds no element;
\* dropping the vector destroys exactly the slots [0, len); dropping an
\* IntoIter after k calls of next destroys exactly the remaining len - k
\* elements; after either drop no slot holds an element.
C29_VecDestroyedExactlyOnce ==
    /\ CallViol = "none"
    /\ VecIdle => NoLiveBeyondLen
    /\ call.op = "drop" => call.destroyed = call.orig
    /\ call.op \in {"into_iter", "into_iter_next", "into_iter_drop"} =>
         /\ call.item = SubSeq(call.orig, 1, call.index)
         /\ call.index <= Len(call.orig)
    /\ call.op = "into_iter_drop" =>
         call.destroyed = SubSeq(call.orig, call.index + 1, Len(call.orig))
    /\ mode = "vec_dropped" => \A i \in DOMAIN vec_buffer : vec_buffer[i] = Uninit

C29_Witness ==
    /\ call.op = "into_iter_drop"
    /\ call.orig = <<1, 2, 1>>
    /\ call.index = 1
    /\ call.destroyed = <<2, 1>>

\* C30: spare_capacity_mut() exposes the slots [len, capacity): it starts
\* at slot len and is capacity - len long; after k values are written into
\* its first slots and set_len(len + k) is called, as_slice() is the old
\* contents followed by the written values.
C30_SpareCapacity ==
    call.op = "spare_capacity_mut" =>
        LET n == Len(call.orig) IN
        /\ call.index = n
        /\ call.val = vec_capacity - n
        /\ vec_len = n + Len(call.item)
        /\ as_slice = call.orig \o call.item

C30_Witness ==
    /\ call.op = "spare_capacity_mut"
    /\ call.orig = <<1>>
    /\ call.item = <<2, 1>>
    /\ vec_capacity = 3
    /\ as_slice = <<1, 2, 1>>

\* C32: extend pushes the items at the back in order: when they number at
\* most capacity - len the deque afterwards is the old contents followed by
\* the items; when they number more, the call panics after it pushed the
\* items that fit.
C32_ExtendPushesBack ==
    [][ ret'.op = "extend" =>
          LET items == ret'.item
              room  == capacity - len IN
          /\ ret'.viol = "none"
          /\ IF Len(items) <= room
             THEN /\ ret'.res = "Ok"
                  /\ contents' = contents \o items
             ELSE /\ ret'.res = "panic"
                  /\ contents' = contents \o SubSeq(items, 1, room)
          /\ AllElements(contents')
      ]_vars

\* C33: is_full() holds iff len = capacity and is_empty() iff len = 0; with
\* capacity 0 both hold at once, push returns Err and pop returns None;
\* with capacity > 0 they never hold together.
C33_VecFullEmpty ==
    /\ vec_is_full <=> vec_len = vec_capacity
    /\ vec_is_empty <=> vec_len = 0
    /\ vec_capacity = 0 =>
          /\ vec_is_full /\ vec_is_empty
          /\ call.op = "push" => call.res = "Err" /\ call.val = call.item
          /\ call.op = "pop" => call.res = "None"
    /\ vec_capacity > 0 => ~(vec_is_full /\ vec_is_empty)

C33_Witness ==
    /\ vec_capacity = 0
    /\ call.op = "push"
    /\ call.res = "Err"
    /\ vec_is_full
    /\ vec_is_empty

\* the segments of a wrapped deque as make_contiguous computes them
FreeSlots == capacity - len
FrontSeg == capacity - front
BackSeg == len - FrontSeg

\* C34: when make_contiguous takes the branch free >= backSeg and
\* free < frontSeg, afterwards the elements occupy the slots
\* [back_old, back_old + len) in logical order, front and back delimit
\* exactly that region, and len() and as_slices() report the same elements.
C34_BackSegmentFits ==
    [][ ( /\ ret'.op = "make_contiguous"
          /\ ~(front <= capacity - len)
          /\ FreeSlots < FrontSeg
          /\ FreeSlots >= BackSeg ) =>
          /\ SliceOf(buffer', back, len) = contents
          /\ front' = back
          /\ back' = (back + len) % capacity
          /\ len' = len
          /\ contents' = contents
      ]_vars

\* C35: when make_contiguous takes the rotate branch (free < frontSeg and
\* free < backSeg), afterwards front and back lie in 0..capacity-1 and
\* bound one segment, full keeps its value, and the segment holds the len
\* elements in logical order.
C35_RotateBranch ==
    [][ ( /\ ret'.op = "make_contiguous"
          /\ ~(front <= capacity - len)
          /\ FreeSlots < FrontSeg
          /\ FreeSlots < BackSeg ) =>
          /\ InBounds(front')
          /\ InBounds(back')
          /\ full' = full
          /\ len' = len
          /\ as_slices'[2] = <<>>
          /\ contents' = contents
      ]_vars

\* C36: every empty deque and every full deque with front = 0 is
\* contiguous, and on a contiguous deque (front <= capacity - len)
\* make_contiguous leaves front, back, full and every slot unchanged and
\* returns the segment [front, front + len).
C36_ContiguousUntouched ==
    [][ /\ is_empty => is_contiguous
        /\ (is_full /\ front = 0) => is_contiguous
        /\ (ret'.op = "make_contiguous" /\ front <= capacity - len) =>
              /\ UNCHANGED <<front, back, full, buffer>>
              /\ ret'.slice = SliceOf(buffer, front, len)
              /\ ret'.slice = contents
      ]_vars

C36_Witness ==
    /\ ret.op = "make_contiguous"
    /\ front = 1
    /\ back = 3
    /\ len = 2
    /\ capacity >= 4

\* C37: over the states Empty, Partial and Full with push and pop as the
\* transitions, the deque enters Full only by a successful push that makes
\* front = back and enters Empty only by a successful pop that makes
\* front = back; a push never leads to Empty and a pop never leads to Full.
C37_PushPopStateMachine ==
    [][ /\ (~is_full /\ is_full')
              => /\ ret'.op \in {"push_front", "push_back"}
                 /\ ret'.res = "Ok"
                 /\ front' = back'
        /\ (~is_empty /\ is_empty')
              => /\ ret'.op \in {"pop_front", "pop_back"}
                 /\ ret'.res = "Some"
                 /\ front' = back'
        /\ (ret'.op \in {"push_front", "push_back"}) => ~is_empty'
        /\ (ret'.op \in {"pop_front", "pop_back"}) => ~is_full'
      ]_vars

\* a push has just filled a deque whose cursors meet away from slot 0
C37_Witness ==
    /\ ret.op = "push_back" /\ ret.res = "Ok"
    /\ is_full
    /\ front = back /\ front > 0
    /\ capacity >= 3

\* the buffer after the step differs from the one before at most in slot i
OnlySlotChanged(i) ==
    \A j \in 0..(capacity - 1) : j # i => buffer'[j] = buffer[j]

\* C38: a successful push_back or pop_back changes only back (and full)
\* and leaves front as it was, a successful push_front or pop_front changes
\* only front (and full) and leaves back as it was; every other live
\* element keeps its slot and value, and the moved cursor moves by exactly
\* one slot modulo capacity.
C38_PushPopFrame ==
    [][ /\ (ret'.op = "push_back" /\ ret'.res = "Ok")
              => /\ front' = front
                 /\ back' = (back + 1) % capacity
                 /\ OnlySlotChanged(back)
        /\ (ret'.op = "pop_back" /\ ret'.res = "Some")
              => /\ front' = front
                 /\ back' = (back + capacity - 1) % capacity
                 /\ OnlySlotChanged(back')
        /\ (ret'.op = "push_front" /\ ret'.res = "Ok")
              => /\ back' = back
                 /\ front' = (front + capacity - 1) % capacity
                 /\ OnlySlotChanged(front')
        /\ (ret'.op = "pop_front" /\ ret'.res = "Some")
              => /\ back' = back
                 /\ front' = (front + 1) % capacity
                 /\ OnlySlotChanged(front)
      ]_vars

\* C39: retain / retain_mut calls the predicate once on each of the
\* original_len elements in index order 0, 1, ..., original_len - 1, through
\* the stage before the first deletion and the stage after it: the k calls
\* made so far were on the indices 0..k-1 and saw the original elements
\* there, a running pass has calls left to make, and a pass that returns has
\* made original_len calls.
C39_RetainVisitsInOrder ==
    (call.op \in {"retain", "retain_done"}) =>
        LET k == Len(call.indices) IN
        /\ call.indices = [i \in 1..k |-> i - 1]
        /\ call.visited = SubSeq(call.orig, 1, k)
        /\ k <= call.original_len
        /\ call.op = "retain" => k < call.original_len
        /\ (call.op = "retain_done" /\ ~call.panicked)
              => k = call.original_len

\* a pass over three elements has returned after keeping, deleting and
\* keeping: both stages made calls
C39_Witness ==
    /\ call.op = "retain_done"
    /\ ~call.panicked
    /\ call.indices = <<0, 1, 2>>
    /\ call.verdicts = <<TRUE, FALSE, TRUE>>

\* C40: truncate(newLen) with newLen <= len has set len to newLen before
\* any destructor of [newLen, old len) runs; so when a destructor panics
\* part-way, each element of [newLen, old len) is destroyed at most once, in
\* order, and a drop of the vector afterwards destroys exactly the elements
\* of [0, newLen), each of them live.
C40_TruncateShrinksFirst ==
    [][ /\ (call'.op \in {"truncate_dropping", "truncate_done",
                          "truncate_aborted"})
              => /\ vec_len' = call'.index
                 /\ call'.viol = "none"
                 /\ call'.destroyed
                      = SubSeq(call'.orig, call'.index + 1, call'.next)
                 /\ as_slice' = SubSeq(call'.orig, 1, call'.index)
                 /\ AllElements(as_slice')
        /\ (call.op = "truncate_done" /\ call.panicked /\ call'.op = "drop")
              => /\ call'.viol = "none"
                 /\ call'.destroyed = SubSeq(call.orig, 1, call.index)
                 /\ AllElements(call'.destroyed)
      ]_vars

\* a truncate(1) of three elements has unwound after one of the two
\* destructors panicked; the vector holds its first element
C40_Witness ==
    /\ call.op = "truncate_done"
    /\ call.panicked
    /\ call.index = 1
    /\ call.end = 3
    /\ Len(call.destroyed) = 2
    /\ as_slice = <<2>>

====
